---- MODULE Spec2Model ----
(***************************************************************************)
(* The asynchronous TimSort of src/unnamed/part_000 (timsort and the       *)
(* functions nested in it).  Every `await compare(...)` is a suspension    *)
(* point: an action resumes one suspended function with the comparator's   *)
(* answer and runs it to its next comparator call, or to its return.       *)
(* Array indices are the source's 0-based indices.                          *)
(***************************************************************************)
EXTENDS Integers, Sequences, FiniteSets, TLC

\* ------------------------------------------------------------- constants
MIN_MERGE == 32
MIN_GALLOP == 7

\* ---------------------------------------------------------------- bounds
\* exhaustive inputs: every key sequence of length 0..MaxLen over 1..MaxKey
MaxLen == 5
MaxKey == 3
\* inputs answered by a comparator that may answer anything: length 0..MaxAnyLen
MaxAnyLen == 6
\* monotone inputs (ascending, strictly descending) of length 2..MaxMono
MaxMono == 6
\* long inputs have length MIN_MERGE-1 .. MIN_MERGE+LongExtra
LongExtra == 1
\* long inputs with keys (i*k) % m, m in 1..MaxMod
MaxMod == 5
\* the run stack on its own: at most MaxRuns runs of length 1..MaxRunLen each
MaxRuns == 5
MaxRunLen == 14
\* a merge on its own: two adjacent runs, the shorter of length 1..MaxShort,
\* the longer of length up to MaxLong
MaxShort == 2
MaxLong == 11
\* the short run's keys are p, p + d, ... with d in 0..MaxGap
MaxGap == 3
\* a gallop on its own: an ascending range of length 1..MaxGallopLen whose keys
\* are among 2, 4, ..., 2 * MaxGallopKey, searched for a key in 1..2 * MaxGallopKey + 1
MaxGallopLen == 8
MaxGallopKey == 3
\* the counters of comparator calls stop counting at CmpCap (no run of the
\* inputs above comes near it)
CmpCap == 255

\* --------------------------------------------------------------- helpers
\* an element is <<key, tag>>: the comparator looks at the key, the tag is the
\* element's index in the input (what makes two equal elements distinguishable)
Key(e) == e[1]
Tag(e) == e[2]
\* what JavaScript reads at an index that holds nothing
Undefined == <<0, -1>>

Min(x, y) == IF x < y THEN x ELSE y

\* a[i], 0-based
At(s, i) == IF i + 1 \in DOMAIN s THEN s[i + 1] ELSE Undefined

\* a[i] = v, 0-based; an index one past the end appends (runBase, runLen)
SetAt(s, i, v) == IF i + 1 \in DOMAIN s THEN [s EXCEPT ![i + 1] = v] ELSE Append(s, v)

\* s.slice(from, to)
Slice(s, from, to) == SubSeq(s, from + 1, Min(to, Len(s)))

\* arraycopy(s, spos, d, dpos, len): the new d
arraycopy(s, spos, d, dpos, len) ==
    LET c == Slice(s, spos, spos + len)
    IN  [i \in 1..Len(d) |->
            IF dpos + 1 <= i /\ i <= dpos + len THEN At(c, i - dpos - 1) ELSE d[i]]

\* x >>> 1 for the non-negative x that occur
Shr1(x) == x \div 2

Sign(x) == IF x < 0 THEN -1 ELSE IF x > 0 THEN 1 ELSE 0

\* the comparators a caller may supply, by what they answer to compare(x, y):
\*   "order"  the consistent total preorder on keys
\*   "cyclic" an antisymmetric but intransitive answer (keys compared modulo 3)
\*   "neg"    always negative
\*   "any"    any answer at every call
CmpModes == {"order", "cyclic", "neg", "any"}

Answers(mode, x, y) ==
    CASE mode = "order"  -> {Sign(Key(x) - Key(y))}
      [] mode = "cyclic" -> {CASE (Key(x) - Key(y)) % 3 = 0 -> 0
                               [] (Key(x) - Key(y)) % 3 = 1 -> 1
                               [] OTHER -> -1}
      [] mode = "neg"    -> {-1}
      [] OTHER           -> {-1, 0, 1}

\* (ofs << 1) + 1 on 32-bit integers, as JavaScript's << computes it, for
\* 0 <= ofs < 2^31: from 2^30 on the shift wraps to a negative number
Shl1Plus1(ofs) ==
    IF ofs < 1073741824
    THEN 2 * ofs + 1
    ELSE (2 * (ofs - 1073741824) - 2147483647 - 1) + 1

\* x | y for non-negative x, y
RECURSIVE BitOr(_, _)
BitOr(x, y) ==
    IF x = 0 THEN y
    ELSE IF y = 0 THEN x
    ELSE (IF x % 2 = 1 \/ y % 2 = 1 THEN 1 ELSE 0) + 2 * BitOr(x \div 2, y \div 2)

\* ------------------------------------------------------------ merge tasks
\* mergeCollapse and mergeForceCollapse call the async mergeAt without await, and
\* mergeAt calls the async mergeLo / mergeHi without await: each mergeAt call
\* runs on its own from its first comparator call on.  A task is one such call
\* with the mergeLo / mergeHi it starts: its position (pc), its outstanding
\* comparator call (cmp) and the locals of mergeAt, mergeLo / mergeHi and of the
\* gallopLeft / gallopRight it is in.  Field a is global_a while the task runs.
NewTask(base1, len1, base2, len2) ==
    [pc |-> "new", cmp |-> <<>>, a |-> <<>>,
     base1 |-> base1, len1 |-> len1, base2 |-> base2, len2 |-> len2,
     key |-> Undefined, src |-> "", base |-> 0, len |-> 0, hint |-> 0,
     ofs |-> 0, lastOfs |-> 0, maxOfs |-> 0, m |-> 0, ret |-> "",
     tmp |-> <<>>, cursor1 |-> 0, cursor2 |-> 0, dest |-> 0,
     minGallop |-> 0, count1 |-> 0, count2 |-> 0]

\* the array a gallop searches: global_a or the merge's tmp
Src(w) == IF w.src = "a" THEN w.a ELSE w.tmp

\* await compare(x, y): the call is issued and the function suspends at label
TIssue(w, x, y, label) == [w EXCEPT !.cmp = <<x, y>>, !.pc = label]

\* the gallop's frame is dropped when it returns
DropGallop(w) ==
    [w EXCEPT !.key = Undefined, !.src = "", !.base = 0, !.len = 0, !.hint = 0,
              !.ofs = 0, !.lastOfs = 0, !.maxOfs = 0, !.m = 0, !.ret = "",
              !.cmp = <<>>]

\* Body applied to the value of v0: a function's parameter is evaluated once,
\* at the call, as JavaScript evaluates an argument
With(v0, Body(_)) == CHOOSE r \in {Body(v) : v \in {v0}} : TRUE

\* the task's promise settles: "resolved", or "rejected" by a throw
Finish(w, how) ==
    [NewTask(0, 0, 0, 0) EXCEPT !.pc = how, !.a = w.a]

\* a gallop returns v to the await that called it
RECURSIVE Return(_, _)

\* --- gallopLeft
GallopLeftBinLoop(w0) ==
    With(w0, LAMBDA w :
        IF w.lastOfs < w.ofs
        THEN LET m == w.lastOfs + Shr1(w.ofs - w.lastOfs)
             IN  TIssue([w EXCEPT !.m = m], w.key, At(Src(w), w.base + m), "gl_bin")
        ELSE Return(w, w.ofs))

\* mutant: the binary search of gallopLeft steps over the elements equal to key
GallopLeftBin_Ge(w0, c) ==
    With(w0, LAMBDA w :
        GallopLeftBinLoop(IF c >= 0 THEN [w EXCEPT !.lastOfs = w.m + 1]
                                    ELSE [w EXCEPT !.ofs = w.m]))

GallopLeftBin(w0, c) ==
    With(w0, LAMBDA w :
        GallopLeftBinLoop(IF c > 0 THEN [w EXCEPT !.lastOfs = w.m + 1]
                                   ELSE [w EXCEPT !.ofs = w.m]))

GallopLeftAfterRight(w0) ==
    With(w0, LAMBDA w :
        LET ofs1 == IF w.ofs > w.maxOfs THEN w.maxOfs ELSE w.ofs
        IN  GallopLeftBinLoop([w EXCEPT !.lastOfs = w.lastOfs + w.hint + 1,
                                        !.ofs = ofs1 + w.hint]))

GallopLeftRightLoop(w0) ==
    With(w0, LAMBDA w :
        IF w.ofs < w.maxOfs
        THEN TIssue(w, w.key, At(Src(w), w.base + w.hint + w.ofs), "gl_right")
        ELSE GallopLeftAfterRight(w))

GallopLeftRight(w0, c) ==
    With(w0, LAMBDA w :
        IF c > 0
        THEN LET o == Shl1Plus1(w.ofs)
             IN  GallopLeftRightLoop([w EXCEPT !.lastOfs = w.ofs,
                                               !.ofs = IF o <= 0 THEN w.maxOfs ELSE o])
        ELSE GallopLeftAfterRight(w))

GallopLeftAfterLeft(w0) ==
    With(w0, LAMBDA w :
        LET ofs1 == IF w.ofs > w.maxOfs THEN w.maxOfs ELSE w.ofs
        IN  GallopLeftBinLoop([w EXCEPT !.lastOfs = w.hint - ofs1 + 1,
                                        !.ofs = w.hint - w.lastOfs]))

GallopLeftLeftLoop(w0) ==
    With(w0, LAMBDA w :
        IF w.ofs < w.maxOfs
        THEN TIssue(w, w.key, At(Src(w), w.base + w.hint - w.ofs), "gl_left")
        ELSE GallopLeftAfterLeft(w))

GallopLeftLeft(w0, c) ==
    With(w0, LAMBDA w :
        IF c <= 0
        THEN LET o == Shl1Plus1(w.ofs)
             IN  GallopLeftLeftLoop([w EXCEPT !.lastOfs = w.ofs,
                                              !.ofs = IF o <= 0 THEN w.maxOfs ELSE o])
        ELSE GallopLeftAfterLeft(w))

GallopLeftFirst(w0, c) ==
    With(w0, LAMBDA w :
        IF c > 0
        THEN GallopLeftRightLoop([w EXCEPT !.maxOfs = w.len - w.hint])
        ELSE GallopLeftLeftLoop([w EXCEPT !.maxOfs = w.hint + 1]))

\* gallopLeft(key, a, base, len, hint, compare), called by the await at ret
gallopLeft(w0, key, src, base, len, hint, ret) ==
    With(w0, LAMBDA w :
        LET w1 == [w EXCEPT !.key = key, !.src = src, !.base = base, !.len = len,
                            !.hint = hint, !.lastOfs = 0, !.ofs = 1, !.maxOfs = 0,
                            !.m = 0, !.ret = ret]
        IN  TIssue(w1, key, At(Src(w1), base + hint), "gl_first"))

\* --- gallopRight
GallopRightBinLoop(w0) ==
    With(w0, LAMBDA w :
        IF w.lastOfs < w.ofs
        THEN LET m == w.lastOfs + Shr1(w.ofs - w.lastOfs)
             IN  TIssue([w EXCEPT !.m = m], w.key, At(Src(w), w.base + m), "gr_bin")
        ELSE Return(w, w.ofs))

\* mutant: the binary search of gallopRight stops at the elements equal to key
GallopRightBin_Le(w0, c) ==
    With(w0, LAMBDA w :
        GallopRightBinLoop(IF c <= 0 THEN [w EXCEPT !.ofs = w.m]
                                     ELSE [w EXCEPT !.lastOfs = w.m + 1]))

GallopRightBin(w0, c) ==
    With(w0, LAMBDA w :
        GallopRightBinLoop(IF c < 0 THEN [w EXCEPT !.ofs = w.m]
                                    ELSE [w EXCEPT !.lastOfs = w.m + 1]))

GallopRightAfterLeft(w0) ==
    With(w0, LAMBDA w :
        LET ofs1 == IF w.ofs > w.maxOfs THEN w.maxOfs ELSE w.ofs
        IN  GallopRightBinLoop([w EXCEPT !.lastOfs = w.hint - ofs1 + 1,
                                         !.ofs = w.hint - w.lastOfs]))

GallopRightLeftLoop(w0) ==
    With(w0, LAMBDA w :
        IF w.ofs < w.maxOfs
        THEN TIssue(w, w.key, At(Src(w), w.base + w.hint - w.ofs), "gr_left")
        ELSE GallopRightAfterLeft(w))

GallopRightLeft(w0, c) ==
    With(w0, LAMBDA w :
        IF c < 0
        THEN LET o == Shl1Plus1(w.ofs)
             IN  GallopRightLeftLoop([w EXCEPT !.lastOfs = w.ofs,
                                               !.ofs = IF o <= 0 THEN w.maxOfs ELSE o])
        ELSE GallopRightAfterLeft(w))

GallopRightAfterRight(w0) ==
    With(w0, LAMBDA w :
        LET ofs1 == IF w.ofs > w.maxOfs THEN w.maxOfs ELSE w.ofs
        IN  GallopRightBinLoop([w EXCEPT !.lastOfs = w.lastOfs + w.hint + 1,
                                         !.ofs = ofs1 + w.hint]))

GallopRightRightLoop(w0) ==
    With(w0, LAMBDA w :
        IF w.ofs < w.maxOfs
        THEN TIssue(w, w.key, At(Src(w), w.base + w.hint + w.ofs), "gr_right")
        ELSE GallopRightAfterRight(w))

GallopRightRight(w0, c) ==
    With(w0, LAMBDA w :
        IF c >= 0
        THEN LET o == Shl1Plus1(w.ofs)
             IN  GallopRightRightLoop([w EXCEPT !.lastOfs = w.ofs,
                                                !.ofs = IF o <= 0 THEN w.maxOfs ELSE o])
        ELSE GallopRightAfterRight(w))

GallopRightFirst(w0, c) ==
    With(w0, LAMBDA w :
        IF c < 0
        THEN GallopRightLeftLoop([w EXCEPT !.maxOfs = w.hint + 1])
        ELSE GallopRightRightLoop([w EXCEPT !.maxOfs = w.len - w.hint]))

\* gallopRight(key, a, base, len, hint, compare), called by the await at ret
gallopRight(w0, key, src, base, len, hint, ret) ==
    With(w0, LAMBDA w :
        LET w1 == [w EXCEPT !.key = key, !.src = src, !.base = base, !.len = len,
                            !.hint = hint, !.lastOfs = 0, !.ofs = 1, !.maxOfs = 0,
                            !.m = 0, !.ret = ret]
        IN  TIssue(w1, key, At(Src(w1), base + hint), "gr_first"))

\* --- mergeLo
\* lines 552-561: after the outer loop
MergeLoEnd(w0) ==
    With(w0, LAMBDA w :
        IF w.len1 = 1
        THEN LET a1 == arraycopy(w.a, w.cursor2, w.a, w.dest, w.len2)
             IN  Finish([w EXCEPT !.a = SetAt(a1, w.dest + w.len2, At(w.tmp, w.cursor1))],
                        "resolved")
        ELSE IF w.len1 = 0
        THEN Finish(w, "rejected")
        ELSE Finish([w EXCEPT !.a = arraycopy(w.tmp, w.cursor1, w.a, w.dest, w.len1)],
                    "resolved"))

\* line 525: the gallop loop's first call
MergeLoGallop(w0) ==
    With(w0, LAMBDA w :
        gallopRight(w, At(w.a, w.cursor2), "tmp", w.cursor1, w.len1, 0, "lo_count1"))

\* lines 499-507: the outer loop's top, to the straight loop's first compare
MergeLoOuter(w0) ==
    With(w0, LAMBDA w :
        LET w1 == [w EXCEPT !.count1 = 0, !.count2 = 0]
        IN  TIssue(w1, At(w1.a, w1.cursor2), At(w1.tmp, w1.cursor1), "lo_straight"))

\* mutant: on a tie the straight loop takes run 2's element
MergeLoStraight_TieToRun2(w0, c) ==
    With(w0, LAMBDA w :
        LET w1 == IF c <= 0
                  THEN [w EXCEPT !.a = SetAt(w.a, w.dest, At(w.a, w.cursor2)),
                                 !.dest = w.dest + 1, !.cursor2 = w.cursor2 + 1,
                                 !.count2 = w.count2 + 1, !.count1 = 0,
                                 !.len2 = w.len2 - 1]
                  ELSE [w EXCEPT !.a = SetAt(w.a, w.dest, At(w.tmp, w.cursor1)),
                                 !.dest = w.dest + 1, !.cursor1 = w.cursor1 + 1,
                                 !.count1 = w.count1 + 1, !.count2 = 0,
                                 !.len1 = w.len1 - 1]
        IN  IF (c <= 0 /\ w1.len2 = 0) \/ (~(c <= 0) /\ w1.len1 = 1)
            THEN MergeLoEnd(w1)
            ELSE IF BitOr(w1.count1, w1.count2) < w1.minGallop
            THEN TIssue(w1, At(w1.a, w1.cursor2), At(w1.tmp, w1.cursor1), "lo_straight")
            ELSE MergeLoGallop(w1))

\* lines 507-518: one turn of the straight loop
MergeLoStraight(w0, c) ==
    With(w0, LAMBDA w :
        LET w1 == IF c < 0
                  THEN [w EXCEPT !.a = SetAt(w.a, w.dest, At(w.a, w.cursor2)),
                                 !.dest = w.dest + 1, !.cursor2 = w.cursor2 + 1,
                                 !.count2 = w.count2 + 1, !.count1 = 0,
                                 !.len2 = w.len2 - 1]
                  ELSE [w EXCEPT !.a = SetAt(w.a, w.dest, At(w.tmp, w.cursor1)),
                                 !.dest = w.dest + 1, !.cursor1 = w.cursor1 + 1,
                                 !.count1 = w.count1 + 1, !.count2 = 0,
                                 !.len1 = w.len1 - 1]
        IN  IF (c < 0 /\ w1.len2 = 0) \/ (~(c < 0) /\ w1.len1 = 1)
            THEN MergeLoEnd(w1)
            ELSE IF BitOr(w1.count1, w1.count2) < w1.minGallop
            THEN TIssue(w1, At(w1.a, w1.cursor2), At(w1.tmp, w1.cursor1), "lo_straight")
            ELSE MergeLoGallop(w1))

\* lines 525-537: gallopRight returned count1
MergeLoCount1(w0, v) ==
    With(w0, LAMBDA w :
        LET w1 == IF v # 0
                  THEN [w EXCEPT !.count1 = v,
                                 !.a = arraycopy(w.tmp, w.cursor1, w.a, w.dest, v),
                                 !.dest = w.dest + v, !.cursor1 = w.cursor1 + v,
                                 !.len1 = w.len1 - v]
                  ELSE [w EXCEPT !.count1 = v]
            w2 == [w1 EXCEPT !.a = SetAt(w1.a, w1.dest, At(w1.a, w1.cursor2)),
                             !.dest = w1.dest + 1, !.cursor2 = w1.cursor2 + 1,
                             !.len2 = w1.len2 - 1]
        IN  IF v # 0 /\ w1.len1 <= 1
            THEN MergeLoEnd(w1)
            ELSE IF w2.len2 = 0
            THEN MergeLoEnd(w2)
            ELSE gallopLeft(w2, At(w2.tmp, w2.cursor1), "a", w2.cursor2, w2.len2, 0,
                            "lo_count2"))

\* lines 537-550: gallopLeft returned count2
MergeLoCount2(w0, v) ==
    With(w0, LAMBDA w :
        LET w1 == IF v # 0
                  THEN [w EXCEPT !.count2 = v,
                                 !.a = arraycopy(w.a, w.cursor2, w.a, w.dest, v),
                                 !.dest = w.dest + v, !.cursor2 = w.cursor2 + v,
                                 !.len2 = w.len2 - v]
                  ELSE [w EXCEPT !.count2 = v]
            w2 == [w1 EXCEPT !.a = SetAt(w1.a, w1.dest, At(w1.tmp, w1.cursor1)),
                             !.dest = w1.dest + 1, !.cursor1 = w1.cursor1 + 1,
                             !.len1 = w1.len1 - 1]
            w3 == [w2 EXCEPT !.minGallop = w2.minGallop - 1]
            g  == IF w3.minGallop < 0 THEN 0 ELSE w3.minGallop
        IN  IF v # 0 /\ w1.len2 = 0
            THEN MergeLoEnd(w1)
            ELSE IF w2.len1 = 1
            THEN MergeLoEnd(w2)
            ELSE IF w3.count1 >= MIN_GALLOP \/ w3.count2 >= MIN_GALLOP
            THEN MergeLoGallop(w3)
            ELSE MergeLoOuter([w3 EXCEPT !.minGallop = g + 2]))

\* lines 473-497: mergeLo(base1, len1, base2, len2) to its first await
mergeLo(w0) ==
    With(w0, LAMBDA w :
        LET tmp == Slice(w.a, w.base1, w.base1 + w.len1)
            w1  == [w EXCEPT !.tmp = tmp, !.cursor1 = 0,
                             !.a = SetAt(w.a, w.base1, At(w.a, w.base2)),
                             !.dest = w.base1 + 1, !.cursor2 = w.base2 + 1,
                             !.len2 = w.len2 - 1]
        IN  IF w1.len2 = 0
            THEN Finish([w1 EXCEPT !.a = arraycopy(tmp, w1.cursor1, w1.a, w1.dest, w1.len1)],
                        "resolved")
            ELSE IF w1.len1 = 1
            THEN LET a1 == arraycopy(w1.a, w1.cursor2, w1.a, w1.dest, w1.len2)
                 IN  Finish([w1 EXCEPT !.a = SetAt(a1, w1.dest + w1.len2, At(tmp, w1.cursor1))],
                            "resolved")
            ELSE MergeLoOuter([w1 EXCEPT !.minGallop = MIN_GALLOP]))

\* --- mergeHi
\* lines 656-668: after the outer loop
MergeHiEnd(w0) ==
    With(w0, LAMBDA w :
        IF w.len2 = 1
        THEN LET dest == w.dest - w.len1
                 cursor1 == w.cursor1 - w.len1
                 a1 == arraycopy(w.a, cursor1 + 1, w.a, dest + 1, w.len1)
             IN  Finish([w EXCEPT !.a = SetAt(a1, dest, At(w.tmp, w.cursor2))], "resolved")
        ELSE IF w.len2 = 0
        THEN Finish(w, "rejected")
        ELSE Finish([w EXCEPT !.a = arraycopy(w.tmp, 0, w.a, w.dest - (w.len2 - 1), w.len2)],
                    "resolved"))

\* line 629: the gallop loop's first call
MergeHiGallop(w0) ==
    With(w0, LAMBDA w :
        gallopRight(w, At(w.tmp, w.cursor2), "a", w.base1, w.len1, w.len1 - 1, "hi_count1"))

\* lines 603-611: the outer loop's top, to the straight loop's first compare
MergeHiOuter(w0) ==
    With(w0, LAMBDA w :
        LET w1 == [w EXCEPT !.count1 = 0, !.count2 = 0]
        IN  TIssue(w1, At(w1.tmp, w1.cursor2), At(w1.a, w1.cursor1), "hi_straight"))

\* lines 611-622: one turn of the straight loop
MergeHiStraight(w0, c) ==
    With(w0, LAMBDA w :
        LET w1 == IF c < 0
                  THEN [w EXCEPT !.a = SetAt(w.a, w.dest, At(w.a, w.cursor1)),
                                 !.dest = w.dest - 1, !.cursor1 = w.cursor1 - 1,
                                 !.count1 = w.count1 + 1, !.count2 = 0,
                                 !.len1 = w.len1 - 1]
                  ELSE [w EXCEPT !.a = SetAt(w.a, w.dest, At(w.tmp, w.cursor2)),
                                 !.dest = w.dest - 1, !.cursor2 = w.cursor2 - 1,
                                 !.count2 = w.count2 + 1, !.count1 = 0,
                                 !.len2 = w.len2 - 1]
        IN  IF (c < 0 /\ w1.len1 = 0) \/ (~(c < 0) /\ w1.len2 = 1)
            THEN MergeHiEnd(w1)
            ELSE IF BitOr(w1.count1, w1.count2) < w1.minGallop
            THEN TIssue(w1, At(w1.tmp, w1.cursor2), At(w1.a, w1.cursor1), "hi_straight")
            ELSE MergeHiGallop(w1))

\* lines 629-640: gallopRight returned v, count1 = len1 - v
MergeHiCount1(w0, v) ==
    With(w0, LAMBDA w :
        LET count1 == w.len1 - v
            w1 == IF count1 # 0
                  THEN LET dest == w.dest - count1
                           cursor1 == w.cursor1 - count1
                       IN  [w EXCEPT !.count1 = count1, !.dest = dest, !.cursor1 = cursor1,
                                     !.len1 = w.len1 - count1,
                                     !.a = arraycopy(w.a, cursor1 + 1, w.a, dest + 1, count1)]
                  ELSE [w EXCEPT !.count1 = count1]
            w2 == [w1 EXCEPT !.a = SetAt(w1.a, w1.dest, At(w1.tmp, w1.cursor2)),
                             !.dest = w1.dest - 1, !.cursor2 = w1.cursor2 - 1,
                             !.len2 = w1.len2 - 1]
        IN  IF count1 # 0 /\ w1.len1 = 0
            THEN MergeHiEnd(w1)
            ELSE IF w2.len2 = 1
            THEN MergeHiEnd(w2)
            ELSE gallopLeft(w2, At(w2.a, w2.cursor1), "tmp", 0, w2.len2, w2.len2 - 1,
                            "hi_count2"))

\* lines 640-654: gallopLeft returned v, count2 = len2 - v
MergeHiCount2(w0, v) ==
    With(w0, LAMBDA w :
        LET count2 == w.len2 - v
            w1 == IF count2 # 0
                  THEN LET dest == w.dest - count2
                           cursor2 == w.cursor2 - count2
                       IN  [w EXCEPT !.count2 = count2, !.dest = dest, !.cursor2 = cursor2,
                                     !.len2 = w.len2 - count2,
                                     !.a = arraycopy(w.tmp, cursor2 + 1, w.a, dest + 1, count2)]
                  ELSE [w EXCEPT !.count2 = count2]
            w2 == [w1 EXCEPT !.a = SetAt(w1.a, w1.dest, At(w1.a, w1.cursor1)),
                             !.dest = w1.dest - 1, !.cursor1 = w1.cursor1 - 1,
                             !.len1 = w1.len1 - 1]
            w3 == [w2 EXCEPT !.minGallop = w2.minGallop - 1]
            g  == IF w3.minGallop < 0 THEN 0 ELSE w3.minGallop
        IN  IF count2 # 0 /\ w1.len2 <= 1
            THEN MergeHiEnd(w1)
            ELSE IF w2.len1 = 0
            THEN MergeHiEnd(w2)
            ELSE IF w3.count1 >= MIN_GALLOP \/ w3.count2 >= MIN_GALLOP
            THEN MergeHiGallop(w3)
            ELSE MergeHiOuter([w3 EXCEPT !.minGallop = g + 2]))

\* lines 574-601: mergeHi(base1, len1, base2, len2) to its first await
mergeHi(w0) ==
    With(w0, LAMBDA w :
        LET tmp == Slice(w.a, w.base2, w.base2 + w.len2)
            c1  == w.base1 + w.len1 - 1
            d   == w.base2 + w.len2 - 1
            w1  == [w EXCEPT !.tmp = tmp, !.cursor2 = w.len2 - 1,
                             !.a = SetAt(w.a, d, At(w.a, c1)),
                             !.dest = d - 1, !.cursor1 = c1 - 1,
                             !.len1 = w.len1 - 1]
        IN  IF w1.len1 = 0
            THEN Finish([w1 EXCEPT !.a = arraycopy(tmp, 0, w1.a, w1.dest - (w1.len2 - 1), w1.len2)],
                        "resolved")
            ELSE IF w1.len2 = 1
            THEN LET dest == w1.dest - w1.len1
                     cursor1 == w1.cursor1 - w1.len1
                     a1 == arraycopy(w1.a, cursor1 + 1, w1.a, dest + 1, w1.len1)
                 IN  Finish([w1 EXCEPT !.a = SetAt(a1, dest, At(tmp, w1.cursor2))], "resolved")
            ELSE MergeHiOuter([w1 EXCEPT !.minGallop = MIN_GALLOP]))

\* --- mergeAt, after its stack bookkeeping
\* lines 308-317: gallopRight returned k
MergeAtK(w0, k) ==
    With(w0, LAMBDA w :
        LET w1 == [w EXCEPT !.base1 = w.base1 + k, !.len1 = w.len1 - k]
        IN  IF w1.len1 = 0
            THEN Finish(w1, "resolved")
            ELSE gallopLeft(w1, At(w1.a, w1.base1 + w1.len1 - 1), "a", w1.base2, w1.len2,
                            w1.len2 - 1, "at_len2"))

\* lines 317-325: gallopLeft returned len2
MergeAtLen2(w0, v) ==
    With(w0, LAMBDA w :
        LET w1 == [w EXCEPT !.len2 = v]
        IN  IF v = 0
            THEN Finish(w1, "resolved")
            ELSE IF w1.len1 <= w1.len2 THEN mergeLo(w1) ELSE mergeHi(w1))

Return(w0, v) ==
    With(w0, LAMBDA w :
        LET r  == w.ret
            g  == DropGallop(w)
        IN  CASE r = "at_k"      -> MergeAtK(g, v)
              [] r = "at_len2"   -> MergeAtLen2(g, v)
              [] r = "lo_count1" -> MergeLoCount1(g, v)
              [] r = "lo_count2" -> MergeLoCount2(g, v)
              [] r = "hi_count1" -> MergeHiCount1(g, v)
              [] r = "hi_count2" -> MergeHiCount2(g, v)
              [] r \in {"call_left", "call_right"} ->
                    [w EXCEPT !.pc = "returned", !.ofs = v, !.cmp = <<>>])

\* ----------------------------------------------------------------- state
VARIABLES
    input,      \* the caller's sequence as it was when timsort was called
    cmpMode,    \* the comparator the caller passed (compareFn)
    a,          \* global_a, the caller's array, sorted in place
    status,     \* the promise timsort returned: "pending", "resolved", "rejected"
    pc,         \* where sort, or the function it awaits, is suspended
    cmp,        \* the comparator call sort's chain of awaits waits for: <<x, y>> or <<>>
    caller,     \* which call site of sort runs countRunAndMakeAscending / binarySort
    lo, hi, nRemaining, minRun, runLenlet, force,   \* locals of sort
    runHi,      \* local of countRunAndMakeAscending
    bsHi, start, left, right, pivot,                \* parameters and locals of binarySort
    runBase, runLen, stackSize,                     \* the pending-run stack
    tasks,      \* the mergeAt calls started so far (never awaited), in call order
    nCmpRun,    \* comparator calls issued by countRunAndMakeAscending
    nCmpBin,    \* comparator calls issued by binarySort
    nCountRun,  \* calls of countRunAndMakeAscending
    nReverse,   \* calls of reverseRange
    nMergeAt,   \* calls of mergeAt
    inserted    \* the last insertion binarySort made

vars == <<input, cmpMode, a, status, pc, cmp, caller, lo, hi, nRemaining, minRun,
          runLenlet, force, runHi, bsHi, start, left, right, pivot, runBase, runLen,
          stackSize, tasks, nCmpRun, nCmpBin, nCountRun, nReverse, nMergeAt, inserted>>

\* the state as a record, so that the code's functions are operators on it
Cur ==
    [input |-> input, cmpMode |-> cmpMode, a |-> a, status |-> status, pc |-> pc,
     cmp |-> cmp, caller |-> caller, lo |-> lo, hi |-> hi, nRemaining |-> nRemaining,
     minRun |-> minRun, runLenlet |-> runLenlet, force |-> force, runHi |-> runHi,
     bsHi |-> bsHi, start |-> start, left |-> left, right |-> right, pivot |-> pivot,
     runBase |-> runBase, runLen |-> runLen, stackSize |-> stackSize, tasks |-> tasks,
     nCmpRun |-> nCmpRun, nCmpBin |-> nCmpBin, nCountRun |-> nCountRun,
     nReverse |-> nReverse, nMergeAt |-> nMergeAt, inserted |-> inserted]

Apply(s) ==
    /\ input' = s.input /\ cmpMode' = s.cmpMode /\ a' = s.a /\ status' = s.status
    /\ pc' = s.pc /\ cmp' = s.cmp /\ caller' = s.caller /\ lo' = s.lo /\ hi' = s.hi
    /\ nRemaining' = s.nRemaining /\ minRun' = s.minRun /\ runLenlet' = s.runLenlet
    /\ force' = s.force /\ runHi' = s.runHi /\ bsHi' = s.bsHi /\ start' = s.start
    /\ left' = s.left /\ right' = s.right /\ pivot' = s.pivot
    /\ runBase' = s.runBase /\ runLen' = s.runLen /\ stackSize' = s.stackSize
    /\ tasks' = s.tasks /\ nCmpRun' = s.nCmpRun /\ nCmpBin' = s.nCmpBin
    /\ nCountRun' = s.nCountRun /\ nReverse' = s.nReverse /\ nMergeAt' = s.nMergeAt
    /\ inserted' = s.inserted

NoInsertion == [lo |-> 0, start |-> 0, left |-> 0, prefix |-> <<>>, pivot |-> Undefined]

\* ------------------------------------------------------- the run stack
\* lines 231-241
pushRun(s, runBaseArg, runLenArg) ==
    [s EXCEPT !.runBase = SetAt(s.runBase, s.stackSize, runBaseArg),
              !.runLen = SetAt(s.runLen, s.stackSize, runLenArg),
              !.stackSize = s.stackSize + 1]

\* lines 283-308: mergeAt(i) up to its first await: the stack bookkeeping, and
\* gallopRight's first comparator call.  The caller does not await the rest.
mergeAt(s0, i) ==
    With(s0, LAMBDA s :
        LET base1 == At(s.runBase, i)
            len1  == At(s.runLen, i)
            base2 == At(s.runBase, i + 1)
            len2  == At(s.runLen, i + 1)
            s1 == [s EXCEPT !.runLen = SetAt(s.runLen, i, len1 + len2)]
            s2 == IF i = s.stackSize - 3
                  THEN [s1 EXCEPT !.runBase = SetAt(s1.runBase, i + 1, At(s1.runBase, i + 2)),
                                  !.runLen = SetAt(s1.runLen, i + 1, At(s1.runLen, i + 2))]
                  ELSE s1
            w  == gallopRight([NewTask(base1, len1, base2, len2) EXCEPT !.a = s.a],
                              At(s.a, base2), "a", base1, len1, 0, "at_k")
        IN  [s2 EXCEPT !.stackSize = s.stackSize - 1,
                       !.tasks = Append(s.tasks, [w EXCEPT !.a = <<>>]),
                       !.nMergeAt = s.nMergeAt + 1])

\* lines 251-263
RECURSIVE mergeCollapse(_)
mergeCollapse(s0) ==
    With(s0, LAMBDA s :
        IF s.stackSize > 1
        THEN LET n == s.stackSize - 2
             IN  IF n > 0 /\ At(s.runLen, n - 1) <= At(s.runLen, n) + At(s.runLen, n + 1)
                 THEN mergeCollapse(mergeAt(s, IF At(s.runLen, n - 1) < At(s.runLen, n + 1)
                                               THEN n - 1 ELSE n))
                 ELSE IF At(s.runLen, n) <= At(s.runLen, n + 1)
                 THEN mergeCollapse(mergeAt(s, n))
                 ELSE s
        ELSE s)

\* lines 268-274
RECURSIVE mergeForceCollapse(_)
mergeForceCollapse(s0) ==
    With(s0, LAMBDA s :
        IF s.stackSize > 1
        THEN LET n == s.stackSize - 2
             IN  mergeForceCollapse(mergeAt(s, IF n > 0 /\ At(s.runLen, n - 1) < At(s.runLen, n + 1)
                                               THEN n - 1 ELSE n))
        ELSE s)

\* ---------------------------------------------------------------- sort
\* lines 188-195: the two-pointer swap sweep, hi already decremented
RECURSIVE ReverseSweep(_, _, _)
ReverseSweep(arr0, l, h) ==
    With(arr0, LAMBDA arr :
        IF l < h
        THEN ReverseSweep(SetAt(SetAt(arr, l, At(arr, h)), h, At(arr, l)), l + 1, h - 1)
        ELSE arr)

\* mutant: hi is not decremented before the sweep
reverseRange_NoDec(arr0, l, h) ==
    With(arr0, LAMBDA arr :
        ReverseSweep(arr, l, h))

reverseRange(arr0, l, h) ==
    With(arr0, LAMBDA arr :
        ReverseSweep(arr, l, h - 1))

\* mutant: the minimum run is half the array, so several runs are pushed
minRunLength_Halved(n) == n \div 2

\* mutant: the classical minimum run length, the code commented out at lines
\* 214-221
RECURSIVE MinRunLoop(_, _)
MinRunLoop(n, r) ==
    IF n >= MIN_MERGE THEN MinRunLoop(n \div 2, BitOr(r, n % 2)) ELSE n + r

minRunLength_Classic(n) == MinRunLoop(n, 0)

\* lines 213-223
minRunLength(n) == n + 1

\* lines 681-685: TRUE when rangeCheck throws
rangeCheck(arrayLen, fromIndex, toIndex) ==
    fromIndex > toIndex \/ fromIndex < 0 \/ toIndex > arrayLen

\* await compare(x, y) in sort's chain: the call is issued, sort suspends at label
Issue(s, x, y, label) ==
    [s EXCEPT !.cmp = <<x, y>>, !.pc = label,
              !.nCmpRun = IF label = "bs_cmp" THEN s.nCmpRun
                          ELSE Min(s.nCmpRun + 1, CmpCap),
              !.nCmpBin = IF label = "bs_cmp" THEN Min(s.nCmpBin + 1, CmpCap)
                          ELSE s.nCmpBin]

\* sort's promise settles ("sorted", or "threw"): its locals are gone, and
\* timsort's await at line 19 is ready to resume
SortReturn(s, how) ==
    [s EXCEPT !.pc = how, !.cmp = <<>>, !.caller = "", !.lo = 0, !.hi = 0,
              !.nRemaining = 0, !.minRun = 0, !.runLenlet = 0, !.force = 0,
              !.runHi = 0, !.bsHi = 0, !.start = 0, !.left = 0, !.right = 0,
              !.pivot = Undefined]

RECURSIVE countRunAndMakeAscending(_)

\* lines 78-80
SortEnd(s0) ==
    With(s0, LAMBDA s :
        SortReturn(mergeForceCollapse(s), "sorted"))

\* lines 69-76: push the run, collapse, advance, and loop or leave the loop
AfterRun(s0) ==
    With(s0, LAMBDA s :
        LET s1 == mergeCollapse(pushRun(s, s.lo, s.runLenlet))
            s2 == [s1 EXCEPT !.lo = s.lo + s.runLenlet,
                             !.nRemaining = s.nRemaining - s.runLenlet,
                             !.runLenlet = 0, !.force = 0]
        IN  IF s2.nRemaining # 0 THEN countRunAndMakeAscending(s2) ELSE SortEnd(s2))

\* binarySort returns to line 45 or to line 66
BinarySortReturn(s0) ==
    With(s0, LAMBDA s :
        LET s1 == [s EXCEPT !.bsHi = 0, !.start = 0, !.left = 0, !.right = 0,
                            !.pivot = Undefined, !.cmp = <<>>]
        IN  IF s.caller = "mini"
            THEN SortReturn(s1, "sorted")
            ELSE AfterRun([s1 EXCEPT !.runLenlet = s.force]))

RECURSIVE BinarySortLoop(_)

\* lines 121-133: slide the elements over, put the pivot, next start
BinarySortInsert(s0) ==
    With(s0, LAMBDA s :
        LET n  == s.start - s.left
            a1 == CASE n = 2 -> SetAt(SetAt(s.a, s.left + 2, At(s.a, s.left + 1)),
                                      s.left + 1, At(s.a, s.left))
                    [] n = 1 -> SetAt(s.a, s.left + 1, At(s.a, s.left))
                    [] OTHER -> arraycopy(s.a, s.left, s.a, s.left + 1, n)
        IN  BinarySortLoop([s EXCEPT !.a = SetAt(a1, s.left, s.pivot),
                                     !.start = s.start + 1,
                                     !.inserted = [lo |-> s.lo, start |-> s.start,
                                                   left |-> s.left, pivot |-> s.pivot,
                                                   prefix |-> Slice(s.a, s.lo, s.start)]]))

\* lines 108-110: the binary search's loop test and its compare
BinarySortWhile(s0) ==
    With(s0, LAMBDA s :
        IF s.left < s.right
        THEN Issue(s, s.pivot, At(s.a, Shr1(s.left + s.right)), "bs_cmp")
        ELSE BinarySortInsert(s))

\* mutant: the pivot goes before the elements equal to it
BinarySortCmp_Le(s0, c) ==
    With(s0, LAMBDA s :
        LET mid == Shr1(s.left + s.right)
        IN  BinarySortWhile(IF c <= 0 THEN [s EXCEPT !.right = mid]
                                      ELSE [s EXCEPT !.left = mid + 1]))

\* mutant: the two branches of the binary search are swapped
BinarySortCmp_Swapped(s0, c) ==
    With(s0, LAMBDA s :
        LET mid == Shr1(s.left + s.right)
        IN  BinarySortWhile(IF c < 0 THEN [s EXCEPT !.left = mid + 1]
                                     ELSE [s EXCEPT !.right = mid]))

\* mutant: the search keeps mid in its upper half
BinarySortCmp_NoProgress(s0, c) ==
    With(s0, LAMBDA s :
        LET mid == Shr1(s.left + s.right)
        IN  BinarySortWhile(IF c < 0 THEN [s EXCEPT !.right = mid]
                                     ELSE [s EXCEPT !.left = mid]))

\* lines 110-115: the comparison's answer
BinarySortCmp(s0, c) ==
    With(s0, LAMBDA s :
        LET mid == Shr1(s.left + s.right)
        IN  BinarySortWhile(IF c < 0 THEN [s EXCEPT !.right = mid]
                                     ELSE [s EXCEPT !.left = mid + 1]))

\* lines 99-104: the for loop's test, the pivot and the search bounds
BinarySortLoop(s0) ==
    With(s0, LAMBDA s :
        IF s.start < s.bsHi
        THEN BinarySortWhile([s EXCEPT !.pivot = At(s.a, s.start), !.left = s.lo,
                                       !.right = s.start])
        ELSE BinarySortReturn(s))

\* lines 96-98: binarySort(a, lo, hi, start, compare); lo is sort's lo at both call sites
binarySort(s0, hiArg, startArg) ==
    With(s0, LAMBDA s :
        BinarySortLoop([s EXCEPT !.bsHi = hiArg,
                                 !.start = IF startArg = s.lo THEN startArg + 1 ELSE startArg]))

\* line 178, then line 44 or lines 62-67: the run's length goes to sort
CountRunReturn(s0, n) ==
    With(s0, LAMBDA s :
        LET s1 == [s EXCEPT !.runHi = 0, !.cmp = <<>>]
        IN  IF s.caller = "mini"
            THEN binarySort(s1, s1.hi, s1.lo + n)
            ELSE IF n < s1.minRun
            THEN LET f == IF s1.nRemaining <= s1.minRun THEN s1.nRemaining ELSE s1.minRun
                 IN  binarySort([s1 EXCEPT !.runLenlet = n, !.force = f], s1.lo + f, s1.lo + n)
            ELSE AfterRun([s1 EXCEPT !.runLenlet = n]))

\* lines 171, 178: the descending run is reversed
CountRunReverse(s0) ==
    With(s0, LAMBDA s :
        CountRunReturn([s EXCEPT !.a = reverseRange(s.a, s.lo, s.runHi),
                                 !.nReverse = s.nReverse + 1],
                       s.runHi - s.lo))

\* line 168: the descending loop's test
CountRunDescLoop(s0) ==
    With(s0, LAMBDA s :
        IF s.runHi < s.hi
        THEN Issue(s, At(s.a, s.runHi), At(s.a, s.runHi - 1), "cr_desc")
        ELSE CountRunReverse(s))

\* mutant: a descending run takes equal neighbours too
CountRunDesc_NonStrict(s0, c) ==
    With(s0, LAMBDA s :
        IF c <= 0 THEN CountRunDescLoop([s EXCEPT !.runHi = s.runHi + 1])
        ELSE CountRunReverse(s))

CountRunDesc(s0, c) ==
    With(s0, LAMBDA s :
        IF c < 0 THEN CountRunDescLoop([s EXCEPT !.runHi = s.runHi + 1])
        ELSE CountRunReverse(s))

\* line 173: the ascending loop's test
CountRunAscLoop(s0) ==
    With(s0, LAMBDA s :
        IF s.runHi < s.hi
        THEN Issue(s, At(s.a, s.runHi), At(s.a, s.runHi - 1), "cr_asc")
        ELSE CountRunReturn(s, s.runHi - s.lo))

\* mutant: an ascending run stops at equal neighbours
CountRunAsc_Strict(s0, c) ==
    With(s0, LAMBDA s :
        IF c > 0 THEN CountRunAscLoop([s EXCEPT !.runHi = s.runHi + 1])
        ELSE CountRunReturn(s, s.runHi - s.lo))

CountRunAsc(s0, c) ==
    With(s0, LAMBDA s :
        IF c >= 0 THEN CountRunAscLoop([s EXCEPT !.runHi = s.runHi + 1])
        ELSE CountRunReturn(s, s.runHi - s.lo))

\* line 167: the first comparison decides the direction
CountRunFirst(s0, c) ==
    With(s0, LAMBDA s :
        IF c < 0 THEN CountRunDescLoop(s) ELSE CountRunAscLoop(s))

\* lines 159-167: countRunAndMakeAscending(a, lo, hi, compare) with sort's lo and hi
countRunAndMakeAscending(s0) ==
    With(s0, LAMBDA s :
        LET s1 == [s EXCEPT !.nCountRun = s.nCountRun + 1, !.runHi = s.lo + 1]
        IN  IF s1.runHi = s1.hi
            THEN CountRunReturn(s1, 1)
            ELSE Issue([s1 EXCEPT !.runHi = s.lo + 2], At(s.a, s.lo + 1), At(s.a, s.lo),
                       "cr_first"))

\* mutant: no early return for fewer than two elements
sort_NoEarlyReturn(s0, loArg, hiArg) ==
    With(s0, LAMBDA s :
        LET s1 == [s EXCEPT !.stackSize = 0, !.runBase = <<>>, !.runLen = <<>>,
                            !.lo = loArg, !.hi = hiArg, !.nRemaining = hiArg - loArg]
        IN  IF rangeCheck(Len(s.a), loArg, hiArg)
            THEN SortReturn(s1, "threw")
            ELSE IF s1.nRemaining < MIN_MERGE
            THEN countRunAndMakeAscending([s1 EXCEPT !.caller = "mini"])
            ELSE countRunAndMakeAscending([s1 EXCEPT !.caller = "loop",
                                                     !.minRun = minRunLength(s1.nRemaining)]))

\* lines 27-60: sort(a, lo, hi, compare) to its first await
sort(s0, loArg, hiArg) ==
    With(s0, LAMBDA s :
        LET s1 == [s EXCEPT !.stackSize = 0, !.runBase = <<>>, !.runLen = <<>>,
                            !.lo = loArg, !.hi = hiArg, !.nRemaining = hiArg - loArg]
        IN  IF rangeCheck(Len(s.a), loArg, hiArg)
            THEN SortReturn(s1, "threw")
            ELSE IF s1.nRemaining < 2
            THEN SortReturn(s1, "sorted")
            ELSE IF s1.nRemaining < MIN_MERGE
            THEN countRunAndMakeAscending([s1 EXCEPT !.caller = "mini"])
            ELSE countRunAndMakeAscending([s1 EXCEPT !.caller = "loop",
                                                     !.minRun = minRunLength(s1.nRemaining)]))

\* --------------------------------------------------------------- inputs
Elems(keys) == [i \in 1..Len(keys) |-> <<keys[i], i - 1>>]

KeySeqs(n) == [1..n -> 1..MaxKey]

\* every key sequence of length 0..MaxLen over 1..MaxKey
SmallInputs == UNION {{Elems(k) : k \in KeySeqs(n)} : n \in 0..MaxLen}

\* the comparator that may answer anything does not look at the keys
AnyInputs == {Elems([i \in 1..n |-> 1]) : n \in 0..MaxAnyLen}

LongLens == (MIN_MERGE - 1)..(MIN_MERGE + LongExtra)

\* ascending with d equal neighbours, strictly descending, and descending with a
\* rise at position p
Ascending(n, d) == Elems([i \in 1..n |-> (i + d - 1) \div d])
Descending(n) == Elems([i \in 1..n |-> n + 1 - i])
Modular(n, k, m) == Elems([i \in 1..n |-> ((i - 1) * k) % m])

MonoInputs ==
    {Ascending(n, d) : n \in (2..MaxMono) \cup LongLens, d \in 1..2}
    \cup {Descending(n) : n \in (2..MaxMono) \cup LongLens}

LongInputs == {Modular(n, k, m) : n \in LongLens, k \in 0..MaxMod, m \in 1..MaxMod}

\* ----------------------------------------------------------------- Init
\* nothing has run yet: no comparator call, no run, no merge
Fresh(arr, mode) ==
    /\ input = arr /\ a = arr /\ cmpMode = mode
    /\ status = "pending" /\ cmp = <<>>
    /\ minRun = 0 /\ runLenlet = 0 /\ force = 0
    /\ runHi = 0 /\ bsHi = 0 /\ start = 0 /\ left = 0 /\ right = 0 /\ pivot = Undefined
    /\ tasks = <<>>
    /\ nCmpRun = 0 /\ nCmpBin = 0 /\ nCountRun = 0 /\ nReverse = 0 /\ nMergeAt = 0
    /\ inserted = NoInsertion

Idle(arr, mode) ==
    /\ Fresh(arr, mode)
    /\ caller = "" /\ lo = 0 /\ hi = 0 /\ nRemaining = 0
    /\ runBase = <<>> /\ runLen = <<>> /\ stackSize = 0

\* the caller holds a sequence and a comparator and is about to call timsort
Init ==
    /\ pc = "call"
    /\ \/ \E arr \in SmallInputs \cup MonoInputs \cup LongInputs :
            \E mode \in {"order", "cyclic", "neg"} : Idle(arr, mode)
       \/ \E arr \in AnyInputs : Idle(arr, "any")

\* -------------------------------------------------------------- actions
\* lines 9-19: timsort(arr, compareFn) runs sort to its first comparator call
Call ==
    /\ pc = "call"
    /\ \E s \in {sort(Cur, 0, Len(a))} : Apply(s)

\* the comparator answers the call at line 167
CountRunFirstStep ==
    /\ pc = "cr_first"
    /\ \E c \in Answers(cmpMode, cmp[1], cmp[2]) :
          \E s \in {CountRunFirst(Cur, c)} : Apply(s)

\* the comparator answers the call at line 168
CountRunDescStep ==
    /\ pc = "cr_desc"
    /\ \E c \in Answers(cmpMode, cmp[1], cmp[2]) :
          \E s \in {CountRunDesc(Cur, c)} : Apply(s)

\* the comparator answers the call at line 173
CountRunAscStep ==
    /\ pc = "cr_asc"
    /\ \E c \in Answers(cmpMode, cmp[1], cmp[2]) :
          \E s \in {CountRunAsc(Cur, c)} : Apply(s)

\* the comparator answers the call at line 110
BinarySortStep ==
    /\ pc = "bs_cmp"
    /\ \E c \in Answers(cmpMode, cmp[1], cmp[2]) :
          \E s \in {BinarySortCmp(Cur, c)} : Apply(s)

\* lines 19-20: sort's promise has settled; timsort returns global_a, or rethrows
TimsortReturn ==
    /\ pc \in {"sorted", "threw"}
    /\ \E s \in {[Cur EXCEPT !.pc = "done",
                             !.status = IF pc = "sorted" THEN "resolved" ELSE "rejected"]} :
          Apply(s)

Next ==
    \/ Call
    \/ CountRunFirstStep
    \/ CountRunDescStep
    \/ CountRunAscStep
    \/ BinarySortStep
    \/ TimsortReturn

Spec == Init /\ [][Next]_vars

\* ------------------------------------------------- the run stack on its own
\* sort's loop, lines 58-76, as it drives the stack: the runs pushed are adjacent
\* and of positive length; their lengths are whatever run detection and minRun
\* make them.  The array holds MaxRuns * MaxRunLen equal elements.
StackArray == Elems([i \in 1..(MaxRuns * MaxRunLen) |-> 1])

InitStack ==
    /\ Fresh(StackArray, "order")
    /\ pc = "loop" /\ caller = "loop"
    /\ lo = 0 /\ hi = Len(StackArray) /\ nRemaining = Len(StackArray)
    /\ runBase = <<>> /\ runLen = <<>> /\ stackSize = 0

\* lines 70-75 for a run of length n at lo
PushRunStep ==
    /\ pc = "loop"
    /\ nMergeAt + stackSize < MaxRuns
    /\ \E n \in 1..MaxRunLen :
          \E s1 \in {mergeCollapse(pushRun([Cur EXCEPT !.runLenlet = n], lo, n))} :
              \E s \in {[s1 EXCEPT !.lo = lo + n, !.nRemaining = nRemaining - n,
                                   !.runLenlet = 0]} : Apply(s)

NextStack == PushRunStep

SpecStack == InitStack /\ [][NextStack]_vars

\* ----------------------------------------------------- a merge on its own
\* sort at line 79 with two adjacent ascending runs pending: mergeForceCollapse
\* starts mergeAt(0), sort returns, and the merge goes on by itself.
\* Under the consistent comparator the long run's keys are 2, 4, 6, ..., each
\* once or twice, and the short run's are p, p + d, ...; the comparator that may answer anything does
\* not look at the keys.
RunKeys(n, p, d) == [i \in 1..n |-> p + (i - 1) * d]

\* the long run's keys: 2, 4, 6, ... each e times
LongKeys(n, e) == [i \in 1..n |-> 2 * ((i + e - 1) \div e)]

MergeLens ==
    {ln \in (1..MaxLong) \X (1..MaxLong) : ln[1] <= MaxShort \/ ln[2] <= MaxShort}

MergeArrays(ln) ==
    IF ln[1] <= ln[2]
    THEN {Elems(RunKeys(ln[1], p, d) \o LongKeys(ln[2], e)) :
             p \in 0..(2 * MaxLong + 1), d \in 0..MaxGap, e \in 1..2}
    ELSE {Elems(LongKeys(ln[1], e) \o RunKeys(ln[2], p, d)) :
             p \in 0..(2 * MaxLong + 1), d \in 0..MaxGap, e \in 1..2}

InitMerge ==
    /\ pc = "collapse" /\ caller = "loop"
    /\ \E ln \in MergeLens :
          /\ \/ \E arr \in MergeArrays(ln) : Fresh(arr, "order")
             \/ Fresh(Elems(RunKeys(ln[1] + ln[2], 1, 0)), "any")
          /\ lo = ln[1] + ln[2] /\ hi = ln[1] + ln[2] /\ nRemaining = 0
          /\ runBase = <<0, ln[1]>> /\ runLen = <<ln[1], ln[2]>> /\ stackSize = 2

\* line 79: mergeForceCollapse(), and sort returns
ForceCollapse ==
    /\ pc = "collapse"
    /\ \E s \in {SortEnd(Cur)} : Apply(s)

\* task i has run on to w: its next comparator call, or its end
TaskRuns(i, w) ==
    \E s \in {[Cur EXCEPT !.a = w.a, !.tasks = [tasks EXCEPT ![i] = [w EXCEPT !.a = <<>>]]]} :
        Apply(s)

\* global_a as task i sees it when it resumes
Resumed(i) == [tasks[i] EXCEPT !.a = a]

\* the comparator's answers to the call task i waits for
TaskAnswers(i) == Answers(cmpMode, tasks[i].cmp[1], tasks[i].cmp[2])

\* the comparator answers the call at line 348
GallopLeftFirstStep ==
    \E i \in DOMAIN tasks :
        /\ tasks[i].pc = "gl_first"
        /\ \E c \in TaskAnswers(i) :
              \E w \in {GallopLeftFirst(Resumed(i), c)} : TaskRuns(i, w)

\* the comparator answers the call at line 351
GallopLeftRightStep ==
    \E i \in DOMAIN tasks :
        /\ tasks[i].pc = "gl_right"
        /\ \E c \in TaskAnswers(i) :
              \E w \in {GallopLeftRight(Resumed(i), c)} : TaskRuns(i, w)

\* the comparator answers the call at line 365
GallopLeftLeftStep ==
    \E i \in DOMAIN tasks :
        /\ tasks[i].pc = "gl_left"
        /\ \E c \in TaskAnswers(i) :
              \E w \in {GallopLeftLeft(Resumed(i), c)} : TaskRuns(i, w)

\* the comparator answers the call at line 387
GallopLeftBinStep ==
    \E i \in DOMAIN tasks :
        /\ tasks[i].pc = "gl_bin"
        /\ \E c \in TaskAnswers(i) :
              \E w \in {GallopLeftBin(Resumed(i), c)} : TaskRuns(i, w)

\* the comparator answers the call at line 413
GallopRightFirstStep ==
    \E i \in DOMAIN tasks :
        /\ tasks[i].pc = "gr_first"
        /\ \E c \in TaskAnswers(i) :
              \E w \in {GallopRightFirst(Resumed(i), c)} : TaskRuns(i, w)

\* the comparator answers the call at line 416
GallopRightLeftStep ==
    \E i \in DOMAIN tasks :
        /\ tasks[i].pc = "gr_left"
        /\ \E c \in TaskAnswers(i) :
              \E w \in {GallopRightLeft(Resumed(i), c)} : TaskRuns(i, w)

\* the comparator answers the call at line 431
GallopRightRightStep ==
    \E i \in DOMAIN tasks :
        /\ tasks[i].pc = "gr_right"
        /\ \E c \in TaskAnswers(i) :
              \E w \in {GallopRightRight(Resumed(i), c)} : TaskRuns(i, w)

\* the comparator answers the call at line 452
GallopRightBinStep ==
    \E i \in DOMAIN tasks :
        /\ tasks[i].pc = "gr_bin"
        /\ \E c \in TaskAnswers(i) :
              \E w \in {GallopRightBin(Resumed(i), c)} : TaskRuns(i, w)

\* the comparator answers the call at line 507
MergeLoStep ==
    \E i \in DOMAIN tasks :
        /\ tasks[i].pc = "lo_straight"
        /\ \E c \in TaskAnswers(i) :
              \E w \in {MergeLoStraight(Resumed(i), c)} : TaskRuns(i, w)

\* the comparator answers the call at line 611
MergeHiStep ==
    \E i \in DOMAIN tasks :
        /\ tasks[i].pc = "hi_straight"
        /\ \E c \in TaskAnswers(i) :
              \E w \in {MergeHiStraight(Resumed(i), c)} : TaskRuns(i, w)

NextMerge ==
    \/ ForceCollapse
    \/ TimsortReturn
    \/ GallopLeftFirstStep
    \/ GallopLeftRightStep
    \/ GallopLeftLeftStep
    \/ GallopLeftBinStep
    \/ GallopRightFirstStep
    \/ GallopRightLeftStep
    \/ GallopRightRightStep
    \/ GallopRightBinStep
    \/ MergeLoStep
    \/ MergeHiStep

SpecMerge == InitMerge /\ [][NextMerge]_vars

\* ----------------------------------------------------- a gallop on its own
\* gallopLeft / gallopRight called for an ascending range a[base .. base + len)
\* with a key and a hint in the range.  The array holds a larger key before
\* the range and a smaller key after it.
GallopRanges ==
    UNION {{r \in [1..n -> {2 * k : k \in 1..MaxGallopKey}] :
               \A i \in 1..(n - 1) : r[i] <= r[i + 1]} : n \in 1..MaxGallopLen}

GallopArrays ==
    {Elems([i \in 1..base |-> 2 * MaxGallopKey + 2] \o r \o <<0>>) :
        base \in 0..1, r \in GallopRanges}

GallopKeys == {<<k, -2>> : k \in 1..(2 * MaxGallopKey + 1)}

InitGallop ==
    /\ pc = "gallop"
    /\ \E arr \in GallopArrays : Idle(arr, "order")

\* the call: lines 344-348 or 408-413, to the gallop's first comparator call
GallopCall ==
    /\ pc = "gallop"
    /\ \E base \in 0..1, key \in GallopKeys, toLeft \in BOOLEAN :
          /\ At(a, base) # Undefined /\ Key(At(a, base)) <= 2 * MaxGallopKey
          /\ (base = 1 => Key(At(a, 0)) > 2 * MaxGallopKey)
          /\ \E hint \in 0..(Len(a) - base - 2) :
                \E w \in {IF toLeft
                           THEN gallopLeft([NewTask(0, 0, 0, 0) EXCEPT !.a = a], key, "a",
                                           base, Len(a) - base - 1, hint, "call_left")
                           ELSE gallopRight([NewTask(0, 0, 0, 0) EXCEPT !.a = a], key, "a",
                                            base, Len(a) - base - 1, hint, "call_right")} :
                    \E s \in {[Cur EXCEPT !.pc = "galloping",
                                          !.tasks = <<[w EXCEPT !.a = <<>>]>>]} : Apply(s)

NextGallop ==
    \/ GallopCall
    \/ GallopLeftFirstStep
    \/ GallopLeftRightStep
    \/ GallopLeftLeftStep
    \/ GallopLeftBinStep
    \/ GallopRightFirstStep
    \/ GallopRightLeftStep
    \/ GallopRightRightStep
    \/ GallopRightBinStep

SpecGallop == InitGallop /\ [][NextGallop]_vars

\* the specification with the scheduling the event loop gives: a comparator
\* that answers every call lets the suspended function take its next step
FairSpec == Spec /\ WF_vars(Next)

\* ------------------------------------------------------------ properties
\* compare(x, y) <= 0 under the consistent comparator
LeqOrder(x, y) == \A c \in Answers("order", x, y) : c <= 0
EqOrder(x, y) == \A c \in Answers("order", x, y) : c = 0

NonDecreasing(arr) == \A i \in 1..(Len(arr) - 1) : LeqOrder(arr[i], arr[i + 1])

StrictlyDescending(arr) == \A i \in 1..(Len(arr) - 1) : ~LeqOrder(arr[i], arr[i + 1])

Range(arr) == {arr[i] : i \in DOMAIN arr}

Occurrences(arr, e) == Cardinality({i \in DOMAIN arr : arr[i] = e})

Permutation(arr, brr) ==
    /\ Len(arr) = Len(brr)
    /\ \A e \in Range(arr) \cup Range(brr) : Occurrences(arr, e) = Occurrences(brr, e)

Reversed(arr) == [i \in 1..Len(arr) |-> arr[Len(arr) + 1 - i]]

\* the comparator calls that have been issued and not answered yet
Outstanding ==
    (IF cmp # <<>> THEN 1 ELSE 0)
    + Cardinality({i \in DOMAIN tasks : tasks[i].cmp # <<>>})

\* C1: when timsort completes under a consistent total-order comparator, the
\* array is non-decreasing under the comparator and a permutation of the input
C1_SortedPermutation ==
    (status = "resolved" /\ cmpMode = "order")
        => NonDecreasing(a) /\ Permutation(a, input)

C1_Witness ==
    /\ status = "resolved" /\ cmpMode = "order"
    /\ Len(input) > MIN_MERGE /\ a # input

\* C2: timsort is stable: elements that compare equal keep their input order
\* in the output, for lengths below, at and above MIN_MERGE
C2_Stable ==
    (status = "resolved" /\ cmpMode = "order")
        => \A i, j \in DOMAIN a :
              (i < j /\ EqOrder(a[i], a[j])) => Tag(a[i]) < Tag(a[j])

C2_Witness ==
    /\ status = "resolved" /\ cmpMode = "order"
    /\ Len(input) = MIN_MERGE /\ a # input
    /\ \E i, j \in DOMAIN a : i < j /\ EqOrder(a[i], a[j])

\* C3: during a timsort call at most one comparator call is outstanding at any
\* time, whatever the comparator answers
C3_OneOutstanding == Outstanding <= 1

C3_Witness ==
    /\ Len(input) >= MIN_MERGE /\ pc = "bs_cmp" /\ Outstanding = 1
    /\ nCmpRun > 0 /\ nCmpBin > 1

\* C6: for an input of length 0 or 1 no comparator call is ever made, the
\* array stays as it was, and the call completes
C6_ShortInput ==
    Len(input) < 2
        => /\ a = input /\ nCmpRun = 0 /\ nCmpBin = 0 /\ cmp = <<>>
           /\ pc \in {"call", "sorted", "done"}
           /\ (pc = "done" => status = "resolved")

C6_Witness == Len(input) = 1 /\ status = "resolved" /\ a = input

\* C7: on a non-decreasing input of length n >= 2 there is one run detection
\* with n-1 comparator calls, no comparator call in binarySort, no mergeAt,
\* and the array never changes
C7_SortedInput ==
    (cmpMode = "order" /\ Len(input) >= 2 /\ NonDecreasing(input))
        => /\ a = input /\ nCmpBin = 0 /\ nMergeAt = 0 /\ nReverse = 0
           /\ nCountRun <= 1 /\ nCmpRun <= Len(input) - 1
           /\ (status = "resolved" => nCountRun = 1 /\ nCmpRun = Len(input) - 1)

C7_Witness ==
    /\ cmpMode = "order" /\ Len(input) >= MIN_MERGE /\ NonDecreasing(input)
    /\ \E i \in 1..(Len(input) - 1) : EqOrder(input[i], input[i + 1])
    /\ status = "resolved"

\* C8: on a strictly descending input of length n >= 2 the whole array is one
\* descending run: one reversal, n-1 comparator calls, all in run detection,
\* none in binarySort, and the output is the input reversed (ascending)
C8_DescendingInput ==
    (cmpMode = "order" /\ Len(input) >= 2 /\ StrictlyDescending(input))
        => /\ nCmpBin = 0 /\ nCountRun <= 1 /\ nReverse <= 1
           /\ (status = "resolved"
                 => /\ nCountRun = 1 /\ nReverse = 1
                    /\ nCmpRun = Len(input) - 1
                    /\ a = Reversed(input) /\ NonDecreasing(a))

C8_Witness ==
    /\ cmpMode = "order" /\ Len(input) >= MIN_MERGE /\ StrictlyDescending(input)
    /\ status = "resolved" /\ nReverse = 1

\* the first offset k in 0..Len(prefix) whose element is >= the pivot
FirstGe(prefix, p) ==
    CHOOSE k \in 0..Len(prefix) :
        /\ k < Len(prefix) => LeqOrder(p, prefix[k + 1])
        /\ \A j \in 1..k : ~LeqOrder(p, prefix[j])

\* the first offset k in 0..Len(prefix) whose element is > the pivot
FirstGt(prefix, p) ==
    CHOOSE k \in 0..Len(prefix) :
        /\ k < Len(prefix) => ~LeqOrder(prefix[k + 1], p)
        /\ \A j \in 1..k : LeqOrder(prefix[j], p)

\* C10 as stated: binarySort puts the pivot at the leftmost position among
\* the elements of the sorted prefix that compare equal to it
C10_Leftmost ==
    (cmpMode = "order" /\ inserted # NoInsertion)
        => /\ NonDecreasing(inserted.prefix)
           /\ inserted.left = inserted.lo + FirstGe(inserted.prefix, inserted.pivot)

\* C10 as amended: binarySort puts the pivot after the elements of the sorted
\* prefix that compare equal to it, at the first position whose element is
\* greater than the pivot (at start when there is none)
C10_AfterEquals ==
    (cmpMode = "order" /\ inserted # NoInsertion)
        => /\ NonDecreasing(inserted.prefix)
           /\ inserted.left = inserted.lo + FirstGt(inserted.prefix, inserted.pivot)

C10_Witness ==
    /\ cmpMode = "order" /\ inserted # NoInsertion
    /\ \E i \in DOMAIN inserted.prefix : EqOrder(inserted.prefix[i], inserted.pivot)
    /\ inserted.left < inserted.start

\* C9: with a comparator that answers every call, whatever it answers, the
\* timsort call ends
C9_Terminates == <>(pc = "done")

C9_Witness ==
    /\ cmpMode # "order" /\ pc = "done" /\ nCmpBin > 2 /\ ~NonDecreasing(a)

\* the stack invariant of lines 243-249 and of the data model
StackInvariant ==
    \A i \in 0..(stackSize - 3) :
        /\ At(runLen, i) > At(runLen, i + 1) + At(runLen, i + 2)
        /\ At(runLen, i + 1) > At(runLen, i + 2)

FairMerge == SpecMerge /\ WF_vars(NextMerge)

\* a merge started at line 79 ends, whatever the comparator answers: the loops
\* of gallopLeft, gallopRight, mergeLo and mergeHi do not run forever
MergeTerminates ==
    <>(pc = "done" /\ \A i \in DOMAIN tasks : tasks[i].pc \in {"resolved", "rejected"})

GallopRange(w) == Slice(a, w.base, w.base + w.len)

\* C12: on an ascending range, for every key and every hint in the range,
\* gallopLeft returns the first offset k in 0..len with a[base + k] >= key
\* (len when there is none)
C12_GallopLeft ==
    \A i \in DOMAIN tasks :
        (tasks[i].pc = "returned" /\ tasks[i].ret = "call_left")
            => /\ NonDecreasing(GallopRange(tasks[i]))
               /\ tasks[i].ofs = FirstGe(GallopRange(tasks[i]), tasks[i].key)

C12_Witness ==
    \E i \in DOMAIN tasks :
        /\ tasks[i].pc = "returned" /\ tasks[i].ret = "call_left"
        /\ tasks[i].base = 1 /\ tasks[i].len >= 6
        /\ 0 < tasks[i].ofs /\ tasks[i].ofs + 3 < tasks[i].hint
        /\ EqOrder(At(a, tasks[i].base + tasks[i].ofs), tasks[i].key)
        /\ EqOrder(At(a, tasks[i].base + tasks[i].ofs + 1), tasks[i].key)

\* C13: on an ascending range, for every key and every hint in the range,
\* gallopRight returns the first offset k in 0..len with a[base + k] > key
\* (len when there is none): the position after the elements equal to key
C13_GallopRight ==
    \A i \in DOMAIN tasks :
        (tasks[i].pc = "returned" /\ tasks[i].ret = "call_right")
            => /\ NonDecreasing(GallopRange(tasks[i]))
               /\ tasks[i].ofs = FirstGt(GallopRange(tasks[i]), tasks[i].key)

C13_Witness ==
    \E i \in DOMAIN tasks :
        /\ tasks[i].pc = "returned" /\ tasks[i].ret = "call_right"
        /\ tasks[i].base = 1 /\ tasks[i].len >= 6
        /\ tasks[i].ofs < tasks[i].len /\ tasks[i].hint + 3 < tasks[i].ofs
        /\ EqOrder(At(a, tasks[i].base + tasks[i].ofs - 1), tasks[i].key)
        /\ EqOrder(At(a, tasks[i].base + tasks[i].ofs - 2), tasks[i].key)

\* the lengths of the two runs mergeAt(0) was called for: mergeAt leaves their
\* sum in runLen[0] and run 2's length in runLen[1]
MergedLen2 == At(runLen, 1)
MergedLen1 == At(runLen, 0) - MergedLen2

\* C11: for two adjacent ascending runs and the consistent comparator, the
\* scratch buffer never holds more than min(len1, len2) elements, and once
\* mergeAt and the mergeLo / mergeHi it started have finished the range is
\* non-decreasing, a permutation of both runs, and each element of run 1 comes
\* before every element of run 2 that compares equal to it
C11_MergeResult ==
    (cmpMode = "order" /\ tasks # <<>>)
        => /\ \A i \in DOMAIN tasks :
                 /\ Len(tasks[i].tmp) <= Min(MergedLen1, MergedLen2)
                 /\ tasks[i].pc # "rejected"
           /\ (\A i \in DOMAIN tasks : tasks[i].pc = "resolved")
                 => /\ NonDecreasing(a) /\ Permutation(a, input)
                    /\ \A i, j \in DOMAIN a :
                          (/\ Tag(a[i]) < MergedLen1 /\ Tag(a[j]) >= MergedLen1
                           /\ EqOrder(a[i], a[j])) => i < j

C11_Witness ==
    /\ cmpMode = "order" /\ tasks # <<>> /\ a # input
    /\ \A i \in DOMAIN tasks : tasks[i].pc = "resolved"
    /\ MergedLen1 >= 2 /\ MergedLen2 > MIN_GALLOP
    /\ \E i, j \in DOMAIN a :
          /\ Tag(a[i]) < MergedLen1 /\ Tag(a[j]) >= MergedLen1 /\ EqOrder(a[i], a[j])
          /\ j - i > 1

\* sanity of the merge under the consistent comparator: once the merge has
\* ended the array is sorted, stable, and holds the input's elements
MergeSane ==
    (cmpMode = "order" /\ \A i \in DOMAIN tasks : tasks[i].pc = "resolved")
        => /\ tasks # <<>> => NonDecreasing(a) /\ Permutation(a, input)
           /\ tasks # <<>> => \A i, j \in DOMAIN a :
                 (i < j /\ EqOrder(a[i], a[j])) => Tag(a[i]) < Tag(a[j])

====
